---- MODULE Spec2Model ----
(***************************************************************************)
(* Model of the marketplace crawlers of this repository:                   *)
(*   src/BTL01/bonbanh.com/crawler.py  (requests, indexed pagination)      *)
(*   src/oto.com.vn/crawler.py         (Playwright, indexed pagination)    *)
(*   src/xe.chotot.com/crawler.py      (Playwright, infinite scroll)       *)
(*                                                                         *)
(* Three specifications share the variables:                               *)
(*   FetchSpec  - one call of fetch_with_retry, one step per request and   *)
(*                one per backoff sleep;                                   *)
(*   ParseSpec  - parse_listing_page applied to one markup and one URL;    *)
(*   Spec       - one crawl of a category (robots check, link discovery,   *)
(*                detail loop, save), for each of the three sites.         *)
(***************************************************************************)
EXTENDS Integers, Sequences, FiniteSets, TLC

VARIABLES
    \* ---- fetch_with_retry (bonbanh) ----
    f_pc,         \* "idle" | "attempting" | "backoff" | "returned" | "raised"
    attempt,      \* the loop variable of `for attempt in range(1, max_retries + 1)`
    requests,     \* number of session.get calls issued
    resps,        \* what each request met: a status code, or RequestException
    waits,        \* the arguments of the time.sleep calls, in order
    rotations,    \* number of rotate_headers calls
    r,            \* the response returned (its status), NoResponse before
    headers,      \* session.headers
    f_url,        \* the url argument, as handed to session.get
    \* ---- parse_listing_page ----
    p_site,       \* which crawler's parse_listing_page is applied
    html,         \* the markup handed to it
    url,          \* the source URL handed to it
    parsed,       \* NotParsed, then the record returned or the exception raised
    \* ---- one crawl of a category ----
    site,         \* "bonbanh" | "oto" | "chotot"
    pc,           \* where the crawl function stands
    oracle,       \* robots.txt as the robot parser meets it
    check_robots_flag,  \* False under --no-robots (oto, chotot)
    max_listings, \* the max_listings argument (NoLimit: None)
    stop_link,    \* the stop_link argument of chotot (<<>>: None)
    allowed,      \* what the robots check returned
    page,         \* page / page_no / iter_idx of the discovery loop
    index_log,    \* the index-page loads issued: <<page, template, outcome>>
    seen,         \* the seen set (oto, chotot)
    found_links,  \* the accumulated link list
    new_links,    \* new_links of the current page or iteration
    iterated,     \* oto: the hrefs of dict.fromkeys(hrefs) already visited
    scanned,      \* anchors of the current page examined so far
    no_new_iters, \* chotot: consecutive iterations without a new link
    idx,          \* position of the detail loop in the link list (from 1)
    attempted,    \* the links whose detail page was requested, in order
    failed,       \* the links whose iteration of the detail loop raised
    results,      \* the records appended so far
    returned,     \* what the crawl function returned
    out_json,     \* the JSON file of results
    out_csv,      \* the CSV file of results
    r_status,     \* bonbanh: r.status_code of the last response bound to r
    since_fetch,  \* what followed the last page request: "fetch" (nothing yet),
                  \* "sleep" (polite_sleep), "sleep3" (the tripled one); "none"
                  \* before the first request
    scrolls,      \* chotot: the scroll steps made
    no_results,   \* oto, chotot: a page read so far shows the no-results marker
    blocked,      \* oto, chotot: the links whose page showed a CAPTCHA marker
    pool_size,    \* oto, chotot: the pool_size argument
    playwright,   \* the `with sync_playwright()` block: "none" | "running" | "stopped"
    browser,      \* "none" | "launched" | "closed" (browser.close() was called)
    contexts,     \* the pool: TRUE for a context that was not closed
    page_log,     \* the new_page() and close() calls on pages, in order
    \* ---- extract_listing_links_from_category ----
    h_calls,      \* the calls made so far: the markup and the list returned
    \* ---- clean_specs_file (oto script.py) ----
    c_file,       \* the JSON file named on the command line
    c_hist        \* the file as each call of clean_specs_file left it

fetchVars == <<f_pc, attempt, requests, resps, waits, rotations, r, headers,
               f_url>>
parseVars == <<p_site, html, url, parsed>>

crawlVars == <<site, pc, oracle, check_robots_flag, max_listings, stop_link,
               allowed, page, index_log, seen, found_links, new_links, iterated,
               scanned, no_new_iters, idx, attempted, failed, results,
               returned, out_json, out_csv, r_status, since_fetch, scrolls,
               no_results, blocked, pool_size, playwright, browser, contexts,
               page_log>>

\* The browser, its pool of contexts and the pages opened in them.
poolVars == <<playwright, browser, contexts, page_log>>

harvestVars == <<h_calls>>
cleanVars == <<c_file, c_hist>>

vars == <<fetchVars, parseVars, crawlVars, harvestVars, cleanVars>>

\* Python's None.
None == "None"

\* fetch_with_retry has returned no response: r is not bound.
NoResponse == -1

Min(a, b) == IF a <= b THEN a ELSE b

(***************************************************************************)
(* fetch_with_retry                                                        *)
(***************************************************************************)

\* Defaults of fetch_with_retry(session, url, timeout=18, max_retries=6, backoff_base=2.0).
max_retries == 6
backoff_base == 2

\* session.get raised requests.RequestException (no response, no status).
RequestException == 0

\* What one request can meet: a transport error or a status code. One
\* representative per branch of the status classification, and the edges of 5xx.
Retryables == {RequestException, 429, 403, 451, 500, 599}
Passthroughs == {200, 404, 204, 499, 600}
Responses == Retryables \cup Passthroughs

\* Mutant of Retryable: the 404 early return is missing, 404 falls in a retry branch.
Retryable_404Retried(resp) ==
    \/ resp = RequestException
    \/ resp \in {429, 404}
    \/ resp \in {403, 451}
    \/ (500 <= resp /\ resp < 600)

\* The branches of fetch_with_retry that sleep and `continue`.
Retryable(resp) ==
    \/ resp = RequestException
    \/ resp = 429
    \/ resp \in {403, 451}
    \/ (500 <= resp /\ resp < 600)

\* Mutant of Backoff: the exponent is dropped, every wait is backoff_base.
Backoff_NoExponent(resp, a) ==
    IF resp = RequestException THEN Min(backoff_base, 60)
    ELSE IF resp = 429 THEN Min(backoff_base, 120)
    ELSE IF resp \in {403, 451} THEN Min(backoff_base * 2, 300)
    ELSE Min(backoff_base, 120)

\* Mutant of Backoff: one formula for every class, min(base^a, 120).
Backoff_OneClass(resp, a) == Min(backoff_base ^ a, 120)

\* The wait computed in the branch taken for resp at attempt a.
Backoff(resp, a) ==
    IF resp = RequestException THEN Min(backoff_base ^ a, 60)
    ELSE IF resp = 429 THEN Min(backoff_base ^ a, 120)
    ELSE IF resp \in {403, 451} THEN Min((backoff_base ^ a) * 2, 300)
    ELSE Min(backoff_base ^ a, 120)

\* Mutant of LoopOver: range(1, max_retries + 2).
LoopOver_OneMore(a) == a > max_retries + 1

\* `for attempt in range(1, max_retries + 1)`: the loop is over after a.
LoopOver(a) == a > max_retries

\* The parser is not running while a fetch is studied.
ParseIdle ==
    /\ p_site = "bonbanh"
    /\ html = [heading |-> <<>>, ma_tin |-> "None", date |-> "None",
               spec |-> <<>>, imgs |-> <<>>]
    /\ url = <<>>
    /\ parsed = [tag |-> "NotParsed"]

NotWritten == [written |-> FALSE, data |-> <<>>]
NotReturned == [kind |-> "running", value |-> <<>>]

\* No crawl is running while a fetch or the parser is studied.
CrawlIdle ==
    /\ site = "bonbanh" /\ pc = "idle"
    /\ oracle = [raises |-> FALSE, disallow |-> {}]
    /\ check_robots_flag = TRUE /\ max_listings = 0 /\ stop_link = <<>>
    /\ allowed = TRUE /\ page = 0 /\ index_log = <<>> /\ seen = {}
    /\ found_links = <<>> /\ new_links = <<>> /\ iterated = {} /\ scanned = 0
    /\ no_new_iters = 0 /\ idx = 0 /\ attempted = <<>> /\ failed = {}
    /\ results = <<>>
    /\ returned = NotReturned /\ out_json = NotWritten /\ out_csv = NotWritten
    /\ r_status = NoResponse /\ since_fetch = "none" /\ scrolls = 0
    /\ no_results = FALSE /\ blocked = {}
    /\ pool_size = 1 /\ playwright = "none" /\ browser = "none"
    /\ contexts = <<>> /\ page_log = <<>>

\* The link harvester has not been called.
HarvestIdle == h_calls = <<>>

\* The cleaning script is not run: no file is named.
NoFile == [kind |-> "missing", format |-> "none", items |-> <<>>]
CleanIdle == c_file = NoFile /\ c_hist = <<>>

\* USER_AGENTS (two of its entries) and the Accept-Language the code sets.
DEFAULT_USER_AGENT == "Mozilla/5.0 Chrome"
USER_AGENTS == {DEFAULT_USER_AGENT, "Mozilla/5.0 Safari"}
AcceptLanguage == "vi,en-US;q=0.9,en;q=0.8"

\* The headers of the session main() builds, with a cookie the server set.
SessionHeaders ==
    [user_agent |-> DEFAULT_USER_AGENT, accept_language |-> AcceptLanguage,
     cookie |-> "sid=1"]

\* Mutant of rotate_headers: the headers are replaced, not updated.
rotate_headers_Replaces(hs, ua) ==
    [user_agent |-> ua, accept_language |-> AcceptLanguage, cookie |-> ""]

\* rotate_headers: session.headers.update of the two identity headers.
rotate_headers(hs, ua) ==
    [hs EXCEPT !.user_agent = ua, !.accept_language = AcceptLanguage]

FetchIdle ==
    /\ f_pc = "idle" /\ attempt = 1 /\ requests = 0 /\ resps = <<>>
    /\ waits = <<>> /\ rotations = 0 /\ r = NoResponse
    /\ headers = SessionHeaders /\ f_url = <<>>

FetchInit ==
    /\ ParseIdle
    /\ CrawlIdle
    /\ HarvestIdle
    /\ CleanIdle
    /\ f_pc = "attempting"
    /\ attempt = 1
    /\ requests = 0
    /\ resps = <<>>
    /\ waits = <<>>
    /\ rotations = 0
    /\ r = NoResponse
    /\ headers = SessionHeaders
    /\ f_url = <<"/listing-1">>

\* One iteration of the loop up to its return or its time.sleep call:
\* rotate_headers, session.get, classification of the outcome.
FetchAttempt(resp) ==
    /\ f_pc = "attempting"
    /\ rotations' = rotations + 1
    /\ \E ua \in USER_AGENTS : headers' = rotate_headers(headers, ua)
    /\ f_url' = f_url
    /\ requests' = requests + 1
    /\ resps' = Append(resps, resp)
    /\ IF Retryable(resp)
       THEN /\ waits' = Append(waits, Backoff(resp, attempt))
            /\ f_pc' = "backoff"
            /\ r' = r
       ELSE /\ f_pc' = "returned"
            /\ r' = resp
            /\ waits' = waits
    /\ attempt' = attempt
    /\ UNCHANGED <<parseVars, crawlVars, harvestVars, cleanVars>>

\* time.sleep(wait) returns and `continue` starts the next iteration, or the
\* loop is over and the function raises.
FetchSleep ==
    /\ f_pc = "backoff"
    /\ attempt' = attempt + 1
    /\ f_pc' = IF LoopOver(attempt + 1) THEN "raised" ELSE "attempting"
    /\ UNCHANGED <<requests, resps, waits, rotations, r, headers, f_url>>
    /\ UNCHANGED <<parseVars, crawlVars, harvestVars, cleanVars>>

FetchNext ==
    \/ \E resp \in Responses : FetchAttempt(resp)
    \/ FetchSleep

FetchSpec == FetchInit /\ [][FetchNext]_vars

\* The loop runs in one thread; session.get has a timeout and every sleep is
\* finite, so an enabled step is eventually taken.
FetchFairSpec == FetchSpec /\ WF_vars(FetchNext)

(***************************************************************************)
(* Text and URLs                                                           *)
(*                                                                         *)
(* A URL or href is the sequence of its parts: the path of a page, then    *)
(* optionally a trailing "/" and a query string. "" (the empty string, and *)
(* a missing value that the code treats alike) is <<>>.                    *)
(***************************************************************************)

\* Paths of listing (detail) pages: they match the detail pattern of the
\* site and end in the numeric id of the listing.
ListingPaths == {"/listing-1", "/listing-2", "/listing-3"}
\* The path of a category page: it matches no detail pattern.
CategoryPath == "/category"
Slash == "/"
Query == "?q=1"

Last(s) == s[Len(s)]
Front(s) == SubSeq(s, 1, Len(s) - 1)

\* s.split("?")[0]
RECURSIVE SplitQuery(_)
SplitQuery(s) ==
    IF s = <<>> THEN <<>>
    ELSE IF Head(s) = Query THEN <<>>
    ELSE <<Head(s)>> \o SplitQuery(Tail(s))

\* s.rstrip("/")
RECURSIVE RStripSlash(_)
RStripSlash(s) ==
    IF s # <<>> /\ Last(s) = Slash THEN RStripSlash(Front(s)) ELSE s

(***************************************************************************)
(* parse_key_values_from_section (bonbanh)                                 *)
(*                                                                         *)
(* A line of text is the sequence of its fields between colons, stripped:  *)
(* <<"abc">> is "abc", <<"K", "">> is "K:", <<"K", "V">> is "K: V".        *)
(***************************************************************************)

\* String literals are written without diacritics: "Thong so ky thuat" is the
\* code's "Thông số kỹ thuật", "Nam san xuat" its "Năm sản xuất", and so on.
SectionHeader == <<"Thong so ky thuat">>
YearKey == "Nam san xuat"
GearKey == "Hop so"

\* re.search(r"\d", line)
HasDigit(line) ==
    \E i \in 1..Len(line) : line[i] \in {"2025", "2019", "6 cap"}

HasColon(line) == Len(line) >= 2
EndsWithColon(line) == Len(line) >= 2 /\ Last(line) = ""

\* kv[key] = val
Put(kv, key, val) ==
    [k \in DOMAIN kv \cup {key} |-> IF k = key THEN val ELSE kv[k]]

\* The while loop from index i on; a value is the text of a line.
RECURSIVE KeyValuesFrom(_, _, _)
KeyValuesFrom(lines, i, kv) ==
    IF i > Len(lines) THEN kv
    ELSE LET line == lines[i] IN
         IF EndsWithColon(line)
         THEN LET takes == /\ i + 1 <= Len(lines)
                           /\ (~HasColon(lines[i + 1]) \/ HasDigit(lines[i + 1]))
                  val == IF takes THEN lines[i + 1] ELSE <<>>
              IN KeyValuesFrom(lines, (IF takes THEN i + 1 ELSE i) + 1,
                               Put(kv, line[1], val))
         ELSE IF HasColon(line)
         THEN KeyValuesFrom(lines, i + 1, Put(kv, line[1], <<line[2]>>))
         ELSE KeyValuesFrom(lines, i + 1, kv)

parse_key_values_from_section(lines) == KeyValuesFrom(lines, 1, <<>>)

(***************************************************************************)
(* parse_listing_page                                                      *)
(*                                                                         *)
(* A markup is what the parser reads of it:                                *)
(*   heading  the text of the first h1/h2 split at "-" (<<>>: none, empty) *)
(*   ma_tin   the digits after the label "Mã tin" in the text, or None     *)
(*   date     the date after "Đăng ngày", or None                          *)
(*   spec     the non-blank lines from "Thong so ky thuat" to the next     *)
(*            section marker (<<>>: the page has no such section)          *)
(*   imgs     the img elements, each with its data-src and src attributes  *)
(***************************************************************************)

BonbanhPhoto == "https://s.bonbanh.com/uploads/users/1/m_1.1.jpg"
BonbanhLazyPhoto == "https://s.bonbanh.com/uploads/users/1/m_2.2.jpg"
OtoPhoto == "https://img1.oto.com.vn/crop/640x480/a/b-1.webp"
ChototPhoto == "https://cdn.chotot.com/x/m_1.1.jpg"
IconUrl == "https://cdn.chotot.com/icon/logo.png"
RelativeSrc == "/static/spinner.gif"

\* re.match of the site's photo pattern (bonbanh, oto); chotot keeps every
\* src that starts with "http".
ImageKept(s, src) ==
    IF s = "bonbanh" THEN src \in {BonbanhPhoto, BonbanhLazyPhoto}
    ELSE IF s = "oto" THEN src = OtoPhoto
    ELSE src # "" /\ src # RelativeSrc

\* img.get("data-src") or img.get("src") or ""
ImgSrc(img) == IF img.data_src # "" THEN img.data_src ELSE img.src

\* The loop over soup.find_all("img").
RECURSIVE CollectImgs(_, _)
CollectImgs(s, imgs) ==
    IF imgs = <<>> THEN <<>>
    ELSE (IF ImageKept(s, ImgSrc(Head(imgs))) THEN <<ImgSrc(Head(imgs))>> ELSE <<>>)
         \o CollectImgs(s, Tail(imgs))

\* Mutant of DictFromKeys: repeated URLs are kept.
DictFromKeys_KeepAll(xs) == xs

\* list(dict.fromkeys(xs)): first occurrences, in order.
RECURSIVE DictFromKeys(_)
DictFromKeys(xs) ==
    IF xs = <<>> THEN <<>>
    ELSE LET front == DictFromKeys(Front(xs)) IN
         IF \E i \in 1..Len(front) : front[i] = Last(xs)
         THEN front ELSE Append(front, Last(xs))

\* re.search(r"-([0-9]{5,10})$", url): the id a listing path ends in, when
\* the URL ends with the path.
TrailingId(u) ==
    IF u # <<>> /\ Last(u) \in ListingPaths THEN Last(u) ELSE None

\* re.search(r"/(\d+)\.htm", url) (chotot), re.search(r"aidxc(\d+)", url) (oto):
\* the id of the listing path, wherever it stands in the URL.
PathId(u) ==
    IF \E i \in 1..Len(u) : u[i] \in ListingPaths
    THEN u[CHOOSE i \in 1..Len(u) : u[i] \in ListingPaths]
    ELSE None

Raised(exc) == [tag |-> "raised", exc |-> exc]

\* bonbanh: `m.group(1) if m else re.search(...).group(1)`; the second
\* search returns None when the URL has no trailing id, and None has no group.
BonbanhIdRaises(h, u) == h.ma_tin = None /\ TrailingId(u) = None

bonbanh_parse_listing_page(h, u) ==
    IF BonbanhIdRaises(h, u) THEN Raised("AttributeError")
    ELSE [tag |-> "record",
          url |-> u,
          id |-> IF h.ma_tin # None THEN h.ma_tin ELSE TrailingId(u),
          title |-> IF h.heading = <<>> THEN "" ELSE h.heading[1],
          price |-> IF Len(h.heading) > 1 THEN h.heading[2] ELSE None,
          posted_date |-> h.date,
          specs |-> IF h.spec # <<>> THEN parse_key_values_from_section(h.spec)
                    ELSE <<>>,
          images |-> DictFromKeys(CollectImgs("bonbanh", h.imgs))]

\* oto and chotot: the id is None when neither source gives one. chotot
\* reads the id from the URL only.
browser_parse_listing_page(s, h, u) ==
    [tag |-> "record",
     url |-> u,
     id |-> IF s = "oto" /\ h.ma_tin # None THEN h.ma_tin ELSE PathId(u),
     raw_title |-> h.heading,
     images |-> DictFromKeys(CollectImgs(s, h.imgs))]

parse_listing_page(s, h, u) ==
    IF s = "bonbanh" THEN bonbanh_parse_listing_page(h, u)
    ELSE browser_parse_listing_page(s, h, u)

(***************************************************************************)
(* ParseSpec: parse_listing_page on one markup and one URL                 *)
(***************************************************************************)

\* Longest spec section (lines after the header) and longest img list drawn.
MaxLines == 2
MaxImgs == 2

SeqsUpTo(S, n) == UNION {[1..k -> S] : k \in 0..n}

Lines == {<<YearKey, "">>, <<"2025">>, <<YearKey, "2019">>,
          <<GearKey, "6 cap">>, <<"Tu dong">>}
SpecBlocks == {<<>>} \cup {<<SectionHeader>> \o ls : ls \in SeqsUpTo(Lines, MaxLines)}
ImgTags == {[data_src |-> "", src |-> BonbanhPhoto],
            [data_src |-> ChototPhoto, src |-> RelativeSrc],
            [data_src |-> OtoPhoto, src |-> IconUrl],
            [data_src |-> BonbanhLazyPhoto, src |-> BonbanhPhoto],
            [data_src |-> "", src |-> IconUrl]}
Markups ==
    [heading : {<<>>, <<"Kia K3", "500 Trieu">>},
     ma_tin : {None, "123456"},
     date : {None, "01/02/2025"},
     spec : SpecBlocks,
     imgs : SeqsUpTo(ImgTags, MaxImgs)]
SourceUrls == {<<"/listing-1">>, <<"/listing-1", Slash>>, <<CategoryPath>>}
Sites == {"bonbanh", "oto", "chotot"}

ParseInit ==
    /\ FetchIdle
    /\ CrawlIdle
    /\ HarvestIdle
    /\ CleanIdle
    /\ p_site \in Sites
    /\ html \in Markups
    /\ url \in SourceUrls
    /\ parsed = [tag |-> "NotParsed"]

Parse ==
    /\ parsed.tag = "NotParsed"
    /\ parsed' = parse_listing_page(p_site, html, url)
    /\ UNCHANGED <<p_site, html, url>>
    /\ UNCHANGED <<fetchVars, crawlVars, harvestVars, cleanVars>>

ParseNext == Parse

ParseSpec == ParseInit /\ [][ParseNext]_vars

(***************************************************************************)
(* The crawl of a category: what the three crawlers share                  *)
(***************************************************************************)

\* Budgets of one crawl: index pages (bonbanh max_pages, oto pages), scroll
\* iterations (chotot pages), anchors examined per page, and the largest
\* max_listings tried.
MaxPages == 2
MaxIters == 5
MaxAnchors == 2
MaxListings == 1

\* The largest pool_size tried.
MaxPool == 2

\* max_listings=None.
NoLimit == -1

\* `if max_listings and ...`: None and 0 are false.
Truthy(n) == n # NoLimit /\ n # 0

\* Mutant of Slice: the list is not cut.
Slice_NoCut(xs, n) == xs

\* xs[:n]; xs[:None] is xs.
Slice(xs, n) ==
    IF n = NoLimit THEN xs ELSE SubSeq(xs, 1, Min(n, Len(xs)))

Range(xs) == {xs[i] : i \in 1..Len(xs)}

\* What robots.txt holds: no Disallow rule, one for the root, one for the
\* path of the category, or one for the path of a listing; or the parser
\* fails on it.
RootPath == "/"
RobotsRules == {{}, {RootPath}, {CategoryPath}, {"/listing-1"}}
Oracles == {[raises |-> TRUE, disallow |-> {}]}
           \cup [raises : {FALSE}, disallow : RobotsRules]

\* rp.can_fetch(ua, path): no Disallow rule is a prefix of the path.
can_fetch(rules, path) ==
    ~\E rule \in rules : rule = RootPath \/ rule = path

\* Mutant of check_robots: the except branch returns False.
check_robots_FailClosed(o, path) ==
    IF o.raises THEN FALSE ELSE can_fetch(o.disallow, path)

\* check_robots / safe_check_robots: the answer of the parser, True when
\* reading or parsing robots.txt raised.
check_robots(o, path) ==
    IF o.raises THEN TRUE ELSE can_fetch(o.disallow, path)

\* The path the crawl function hands to the robots check: bonbanh passes
\* urlparse(base_category_url).path, oto and chotot leave the default "/".
RobotsPathArg(s) == IF s = "bonbanh" THEN CategoryPath ELSE RootPath

\* The hrefs an index page can hold: two listings, the first of them also
\* with a trailing slash and with a query string, and a category link.
Hrefs == {<<"/listing-1">>, <<"/listing-2">>}
         \cup {<<"/listing-1", Slash>>, <<"/listing-1", Query>>}
         \cup {<<CategoryPath>>}

\* The server during one call of fetch_with_retry: it answers 503 to the
\* first `fails` requests and `final` to the next.
Servers == {[fails |-> 0, final |-> 200], [fails |-> 2, final |-> 200],
            [fails |-> 0, final |-> 404], [fails |-> max_retries, final |-> 200]}

\* The servers of an index page: one that answers, one that never does.
IndexServers == {sv \in Servers : sv.final = 200 /\ sv.fails \in {0, max_retries}}

RECURSIVE FetchRun(_, _)
FetchRun(server, a) ==
    IF LoopOver(a) THEN Raised("Exception")
    ELSE LET resp == IF a <= server.fails THEN 503 ELSE server.final IN
         IF Retryable(resp) THEN FetchRun(server, a + 1)
         ELSE [tag |-> "response", status |-> resp]

\* fetch_with_retry against a server: the response returned or the raise.
fetch_with_retry(server) == FetchRun(server, 1)

\* The detail pages served: a recent listing, an old one, one whose year
\* line has no value, and a page with nothing to extract.
RecentPage == [heading |-> <<"Kia K3", "500 Trieu">>, ma_tin |-> "123456", date |-> None,
               spec |-> <<SectionHeader, <<YearKey, "">>, <<"2025">>>>, imgs |-> <<>>]
OldPage == [heading |-> <<"Kia K3", "500 Trieu">>, ma_tin |-> None, date |-> None,
            spec |-> <<SectionHeader, <<YearKey, "2019">>>>, imgs |-> <<>>]
NoYearValuePage == [heading |-> <<>>, ma_tin |-> "123456", date |-> None,
                    spec |-> <<SectionHeader, <<YearKey, "">>>>, imgs |-> <<>>]
EmptyPage == [heading |-> <<>>, ma_tin |-> None, date |-> None,
              spec |-> <<>>, imgs |-> <<>>]
DetailPages == {RecentPage, OldPage, NoYearValuePage, EmptyPage}

\* time.localtime().tm_year when the module is loaded.
YEAR_NOW == 2026

\* int(x) of a value of the specs map; the default of specs.get is 0.
IntLiterals == {<<"2025">>, <<"2019">>}
IntOf(val) == IF val = <<"2025">> THEN 2025 ELSE 2019

\* Mutant of ExceptException: the handler names requests.RequestException only.
ExceptException_RequestOnly(exc) == exc = "RequestException"

\* `except Exception`: every exception but the BaseExceptions
\* (KeyboardInterrupt, SystemExit).
ExceptException(exc) == exc \notin {"KeyboardInterrupt", "SystemExit"}

\* The --stop-link values tried: none, a listing, the same with a query.
StopLinks == {<<>>, <<"/listing-2">>, <<"/listing-2", Query>>}

CrawlInit ==
    /\ FetchIdle
    /\ ParseIdle
    /\ HarvestIdle
    /\ CleanIdle
    /\ site \in Sites
    /\ pc = "start"
    /\ oracle \in Oracles
    /\ check_robots_flag \in (IF site # "bonbanh" /\ oracle.disallow = {RootPath}
                              THEN BOOLEAN ELSE {TRUE})
    /\ max_listings \in (IF oracle.raises \/ oracle.disallow # {}
                         THEN {MaxListings}
                         ELSE IF site = "bonbanh" THEN {NoLimit, MaxListings}
                         ELSE {NoLimit, 0, MaxListings})
    /\ stop_link \in (IF site = "chotot" /\ oracle.disallow = {} /\ ~oracle.raises
                      THEN StopLinks ELSE {<<>>})
    /\ allowed = TRUE /\ page = 0 /\ index_log = <<>> /\ seen = {}
    /\ found_links = <<>> /\ new_links = <<>> /\ iterated = {} /\ scanned = 0
    /\ no_new_iters = 0 /\ idx = 0 /\ attempted = <<>> /\ failed = {}
    /\ results = <<>>
    /\ returned = NotReturned /\ out_json = NotWritten /\ out_csv = NotWritten
    /\ r_status = NoResponse /\ since_fetch = "none" /\ scrolls = 0
    /\ no_results = FALSE /\ blocked = {}
    /\ pool_size \in (IF site # "bonbanh" /\ oracle.disallow = {} /\ ~oracle.raises
                       THEN 1..MaxPool ELSE {1})
    /\ playwright = "none" /\ browser = "none"
    /\ contexts = <<>> /\ page_log = <<>>

\* The configuration of the crawl never changes.
ConfigUnchanged ==
    UNCHANGED <<fetchVars, parseVars, harvestVars, cleanVars, site, oracle,
                check_robots_flag, max_listings, stop_link, pool_size>>

\* browser = pw.chromium.launch(...) and the loop that fills contexts.
Launched(n) == [i \in 1..n |-> TRUE]

\* `for c in contexts: c.close()`
CloseAll(cs) == [i \in 1..Len(cs) |-> FALSE]

\* Leaving the `with sync_playwright()` block, by return or by an exception.
WithExit(pw) == IF pw = "running" THEN "stopped" ELSE pw

\* Mutant of ContextOf: every page is opened in the first context.
ContextOf_First(i, n) == 0

\* contexts[i % len(contexts)]: the index of the context, from 0.
ContextOf(i, n) == i % n

\* ctx.new_page() and page.close(), as entries of page_log: the context, the
\* phase of the crawl and the number of the index page or of the detail link.
Opened(c, phase, n) == [op |-> "open", ctx |-> c, phase |-> phase, n |-> n]
Closed(c, phase, n) == [op |-> "close", ctx |-> c, phase |-> phase, n |-> n]

\* Ctrl-C (KeyboardInterrupt) while the crawl function waits for a page: no
\* handler of the function catches it, it propagates to the caller through
\* the with block.
Interrupt ==
    /\ pc \in {"index", "load", "detail"}
    /\ pc' = IF ExceptException("KeyboardInterrupt") THEN pc ELSE "interrupted"
    /\ playwright' = WithExit(playwright)
    /\ ConfigUnchanged
    /\ UNCHANGED <<browser, contexts, page_log>>
    /\ UNCHANGED <<allowed, page, index_log, seen, found_links, new_links,
                   iterated, scanned, no_new_iters, idx, attempted, failed,
                   results, returned, out_json, out_csv, r_status, since_fetch,
                   scrolls, no_results, blocked>>

(***************************************************************************)
(* bonbanh: crawl_category                                                 *)
(***************************************************************************)

\* Order of the strings: paths by name, then "/" before "?".
PartRank(t) ==
    IF t = CategoryPath THEN 0
    ELSE IF t = "/listing-1" THEN 1
    ELSE IF t = "/listing-2" THEN 2
    ELSE IF t = "/listing-3" THEN 3
    ELSE IF t = Slash THEN 4
    ELSE 5

RECURSIVE UrlLeq(_, _)
UrlLeq(a, b) ==
    IF a = <<>> THEN TRUE
    ELSE IF b = <<>> THEN FALSE
    ELSE IF Head(a) = Head(b) THEN UrlLeq(Tail(a), Tail(b))
    ELSE PartRank(Head(a)) < PartRank(Head(b))

\* sorted(urls)
RECURSIVE Sorted(_)
Sorted(S) ==
    IF S = {} THEN <<>>
    ELSE LET m == CHOOSE x \in S : \A y \in S : UrlLeq(x, y)
         IN <<m>> \o Sorted(S \ {m})

\* patt.search(path): the path of the href holds "xe-<slug>-<digits>".
BonbanhIsListing(h) == h # <<>> /\ Head(h) \in ListingPaths

\* Mutant of extract_listing_links_from_category: the set of URLs outlives
\* the call, and a URL returned by an earlier call is not returned again.
extract_listing_links_from_category_UrlsKept(hrefs) ==
    Sorted({SplitQuery(h) : h \in {x \in hrefs : BonbanhIsListing(x)}}
           \ UNION {Range(h_calls[i].links) : i \in 1..Len(h_calls)})

\* extract_listing_links_from_category: urljoin(base_url, href).split("?")[0]
\* of every matching anchor, as a sorted list without repetition.
extract_listing_links_from_category(hrefs) ==
    Sorted({SplitQuery(h) : h \in {x \in hrefs : BonbanhIsListing(x)}})

(***************************************************************************)
(* HarvestSpec: extract_listing_links_from_category called several times   *)
(***************************************************************************)

\* Calls of the harvester in one run.
MaxCalls == 2

\* The anchors of an index page, as the set of their hrefs.
IndexMarkups == {hs \in SUBSET Hrefs : Cardinality(hs) <= MaxAnchors}

HarvestInit ==
    /\ FetchIdle
    /\ ParseIdle
    /\ CrawlIdle
    /\ HarvestIdle
    /\ CleanIdle

Harvest(markup) ==
    /\ Len(h_calls) < MaxCalls
    /\ h_calls' = Append(h_calls,
                         [markup |-> markup,
                          links |-> extract_listing_links_from_category(markup)])
    /\ UNCHANGED <<fetchVars, parseVars, crawlVars, cleanVars>>

HarvestNext == \E markup \in IndexMarkups : Harvest(markup)

HarvestSpec == HarvestInit /\ [][HarvestNext]_vars

\* Mutant of BonbanhDetailBody: the year test is missing.
BonbanhDetailBody_NoYearTest(link, server, h) ==
    LET resp == fetch_with_retry(server) IN
    IF resp.tag = "raised" THEN resp
    ELSE parse_listing_page("bonbanh", h, link)

\* The try block of the detail loop for one link: the record to append,
\* "filtered" when the year test says `continue`, or the exception raised.
BonbanhDetailBody(link, server, h) ==
    LET resp == fetch_with_retry(server) IN
    IF resp.tag = "raised" THEN resp
    ELSE LET data == parse_listing_page("bonbanh", h, link) IN
         IF data.tag = "raised" THEN data
         ELSE IF YearKey \in DOMAIN data.specs /\ data.specs[YearKey] \notin IntLiterals
         THEN Raised("ValueError")
         ELSE LET year == IF YearKey \in DOMAIN data.specs
                          THEN IntOf(data.specs[YearKey]) ELSE 0
              IN IF year < YEAR_NOW - 3 THEN [tag |-> "filtered"] ELSE data

\* json.dump(results) and save_to_csv(results), which writes nothing for an
\* empty list.
Written(rs) == [written |-> TRUE, data |-> rs]
CsvOf(rs) == IF rs = <<>> THEN NotWritten ELSE Written(rs)

BB_CheckRobots ==
    /\ site = "bonbanh" /\ pc = "start"
    /\ allowed' = check_robots(oracle, RobotsPathArg(site))
    /\ IF allowed'
       THEN pc' = "index" /\ page' = 1 /\ returned' = returned
       ELSE pc' = "refused" /\ page' = page
            /\ returned' = [kind |-> "None", value |-> <<>>]
    /\ ConfigUnchanged
    /\ UNCHANGED poolVars
    /\ UNCHANGED <<index_log, seen, found_links, new_links, iterated, scanned,
                   no_new_iters, idx, attempted, failed, results, out_json,
                   out_csv, r_status, since_fetch, scrolls, no_results, blocked>>

\* How the load of an index page ended.
LoadOutcome(ok) == IF ok THEN "ok" ELSE "failed"

\* One iteration of the page loop: the page is fetched by the primary
\* template and, when that raises, by the alternate one; its links are
\* extracted and the new ones appended.
BB_IndexPage ==
    /\ site = "bonbanh" /\ pc = "index" /\ page <= MaxPages
    /\ \E server1 \in IndexServers, server2 \in IndexServers,
          hrefs \in {hs \in SUBSET Hrefs : Cardinality(hs) <= MaxAnchors} :
          LET r1 == fetch_with_retry(server1)
              r2 == fetch_with_retry(server2)
              loaded == r1.tag # "raised" \/ r2.tag # "raised"
              links == extract_listing_links_from_category(hrefs)
              new == SelectSeq(links, LAMBDA u : u \notin Range(found_links))
              all == found_links \o new
              full == Truthy(max_listings) /\ Len(all) >= max_listings
          IN /\ index_log' = index_log
                    \o <<<<page, "primary", LoadOutcome(r1.tag # "raised")>>>>
                    \o (IF r1.tag = "raised"
                        THEN <<<<page, "alternate", LoadOutcome(r2.tag # "raised")>>>>
                        ELSE <<>>)
             /\ r_status' = IF r1.tag # "raised" THEN r1.status
                             ELSE IF r2.tag # "raised" THEN r2.status
                             ELSE r_status
             /\ since_fetch' = IF ~loaded \/ new = <<>> \/ full
                                THEN "fetch" ELSE "sleep"
             /\ IF ~loaded \/ new = <<>>
                THEN /\ pc' = "detail" /\ idx' = 1
                     /\ UNCHANGED <<found_links, page>>
                ELSE /\ found_links' = IF full THEN Slice(all, max_listings) ELSE all
                     /\ IF full \/ page + 1 > MaxPages
                        THEN pc' = "detail" /\ idx' = 1 /\ page' = page
                        ELSE pc' = "index" /\ idx' = idx /\ page' = page + 1
    /\ ConfigUnchanged
    /\ UNCHANGED poolVars
    /\ UNCHANGED <<allowed, seen, new_links, iterated, scanned, no_new_iters,
                   attempted, failed, results, returned, out_json, out_csv,
                   scrolls, no_results, blocked>>

\* One iteration of the detail loop.
BB_Detail ==
    /\ site = "bonbanh" /\ pc = "detail" /\ idx <= Len(found_links)
    /\ \E server \in Servers, h \in DetailPages :
          LET link == found_links[idx]
              resp == fetch_with_retry(server)
              out == BonbanhDetailBody(link, server, h)
          IN /\ attempted' = Append(attempted, link)
             /\ r_status' = IF resp.tag = "raised" THEN r_status ELSE resp.status
             /\ results' = IF out.tag = "record" THEN Append(results, out) ELSE results
             /\ failed' = IF out.tag = "raised" THEN failed \cup {link} ELSE failed
             /\ since_fetch' = IF out.tag = "filtered" THEN "fetch" ELSE "sleep"
             /\ IF out.tag = "raised" /\ ~ExceptException(out.exc)
                THEN pc' = "aborted" /\ idx' = idx
                ELSE pc' = pc /\ idx' = idx + 1
    /\ ConfigUnchanged
    /\ UNCHANGED poolVars
    /\ UNCHANGED <<allowed, page, index_log, seen, found_links, new_links,
                   iterated, scanned, no_new_iters, returned, out_json, out_csv,
                   scrolls, no_results, blocked>>

\* After the loop: the results are written and returned.
BB_Save ==
    /\ site = "bonbanh" /\ pc = "detail" /\ idx > Len(found_links)
    /\ out_json' = Written(results)
    /\ out_csv' = CsvOf(results)
    /\ returned' = [kind |-> "list", value |-> results]
    /\ pc' = "done"
    /\ ConfigUnchanged
    /\ UNCHANGED poolVars
    /\ UNCHANGED <<allowed, page, index_log, seen, found_links, new_links,
                   iterated, scanned, no_new_iters, idx, attempted, failed,
                   results, r_status, since_fetch, scrolls, no_results, blocked>>

(***************************************************************************)
(* The rendered-browser crawlers: what oto and chotot share                *)
(***************************************************************************)

\* What loading one detail page in the browser gives: the page (with or
\* without the CAPTCHA marker in its text), a navigation timeout, or
\* another error of the browser.
BrowserLoads ==
    {[load |-> "ok", captcha |-> FALSE, html |-> RecentPage],
     [load |-> "ok", captcha |-> TRUE, html |-> EmptyPage],
     [load |-> "timeout", captcha |-> FALSE, html |-> EmptyPage],
     [load |-> "error", captcha |-> FALSE, html |-> EmptyPage]}

\* Mutant of HasCaptchaMarker: the text of the page is not tested.
HasCaptchaMarker_NotTested(w) == FALSE

\* `"Nhap ma xac nhan" in body_text` (chotot: or the too-many-submissions
\* message): the text of the page holds a marker the crawler knows.
HasCaptchaMarker(w) == w.captcha

\* The try block of the detail loop for one link: the record to append,
\* "captcha" when the marker makes the loop `continue`, or the exception.
BrowserDetailBody(s, link, w) ==
    IF w.load = "timeout" THEN Raised("PlaywrightTimeoutError")
    ELSE IF w.load = "error" THEN Raised("Error")
    ELSE IF HasCaptchaMarker(w) THEN [tag |-> "captcha"]
    ELSE parse_listing_page(s, w.html, link)

\* The sleep that follows the try block of one detail link: oto's `continue`
\* skips polite_sleep, chotot sleeps three times as long before `continue`.
SleepAfterDetail(s, out) ==
    IF out.tag # "captcha" THEN "sleep"
    ELSE IF s = "chotot" THEN "sleep3" ELSE "fetch"

\* Mutant of SeenAdd: seen.add(canonical) is missing.
SeenAdd_Missing(set, canonical) == set

\* seen.add(canonical)
SeenAdd(set, canonical) == set \cup {canonical}

\* Mutant of DetailLinks: the loop runs over the list from its end.
DetailLinks_Reversed ==
    [i \in 1..Len(found_links) |-> found_links[Len(found_links) + 1 - i]]

\* The list the detail loop runs over: oto slices it once more.
DetailLinks ==
    IF site = "oto" THEN Slice(found_links, max_listings) ELSE found_links

\* The robots check of oto and chotot, which honour --no-robots.
BrowserCheckRobots(next_pc) ==
    /\ pc = "start"
    /\ allowed' = check_robots(oracle, RobotsPathArg(site))
    /\ IF check_robots_flag /\ ~allowed'
       THEN /\ pc' = "refused" /\ returned' = [kind |-> "list", value |-> <<>>]
            /\ UNCHANGED <<playwright, browser, contexts>>
       ELSE /\ pc' = next_pc /\ returned' = returned
            /\ playwright' = "running" /\ browser' = "launched"
            /\ contexts' = Launched(pool_size)
    /\ page' = 1
    /\ ConfigUnchanged
    /\ UNCHANGED page_log
    /\ UNCHANGED <<index_log, seen, found_links, new_links, iterated, scanned,
                   no_new_iters, idx, attempted, failed, results, out_json,
                   out_csv, r_status, since_fetch, scrolls, no_results, blocked>>

\* The pages of one iteration of the detail loop: new_page(), the p.close()
\* of chotot's CAPTCHA branch, and the close of the finally clause.
DetailPageEvents(s, c, i, out) ==
    <<Opened(c, "detail", i)>>
    \o (IF s = "chotot" /\ out.tag = "captcha"
        THEN <<Closed(c, "detail", i)>> ELSE <<>>)
    \o <<Closed(c, "detail", i)>>

\* One iteration of the detail loop of oto (crawl_detail_links) and chotot.
BrowserDetail ==
    /\ site \in {"oto", "chotot"} /\ pc = "detail" /\ idx <= Len(DetailLinks)
    /\ \E w \in BrowserLoads :
          LET link == DetailLinks[idx]
              out == BrowserDetailBody(site, link, w)
          IN /\ attempted' = Append(attempted, link)
             /\ results' = IF out.tag = "record" THEN Append(results, out) ELSE results
             /\ failed' = IF out.tag = "raised" THEN failed \cup {link} ELSE failed
             /\ blocked' = IF w.load = "ok" /\ w.captcha
                           THEN blocked \cup {link} ELSE blocked
             /\ since_fetch' = SleepAfterDetail(site, out)
             /\ page_log' = page_log
                    \o DetailPageEvents(site, ContextOf(idx - 1, pool_size),
                                        idx - 1, out)
             /\ IF out.tag = "raised" /\ ~ExceptException(out.exc)
                THEN /\ pc' = "aborted" /\ idx' = idx
                     /\ playwright' = WithExit(playwright)
                ELSE /\ pc' = pc /\ idx' = idx + 1
                     /\ playwright' = playwright
    /\ ConfigUnchanged
    /\ UNCHANGED <<browser, contexts>>
    /\ UNCHANGED <<allowed, page, index_log, seen, found_links, new_links,
                   iterated, scanned, no_new_iters, returned, out_json, out_csv,
                   r_status, scrolls, no_results>>

(***************************************************************************)
(* oto: crawl_category_playwright and crawl_detail_links                   *)
(***************************************************************************)

\* DETAIL_HREF_RE.match(href) or DETAIL_FULLURL_RE.match(full)
OtoIsDetail(href) == href # <<>> /\ Head(href) \in ListingPaths

\* The end of the iteration of the page loop for page p, or `continue`.
OtoNextPage(p) ==
    IF p + 1 > MaxPages
    THEN pc' = "detail" /\ idx' = 1 /\ page' = p
    ELSE pc' = "index" /\ idx' = idx /\ page' = p + 1

\* The locals of one scan of the anchors, dead after it.
ScanOver == new_links' = <<>> /\ iterated' = {} /\ scanned' = 0

OTO_CheckRobots == site = "oto" /\ BrowserCheckRobots("index")

\* The pages of one load of an index page: new_page(); after a timeout the
\* page is closed and another opened for the alternate URL; a page that
\* does not load, or shows the no-results marker, is closed.
OtoLoadEvents(c, n, load, marker) ==
    <<Opened(c, "index", n)>>
    \o (IF load \in {"alt_ok", "alt_fail"}
        THEN <<Closed(c, "index", n), Opened(c, "index", n)>> ELSE <<>>)
    \o (IF load \in {"alt_fail", "error"} \/ marker
        THEN <<Closed(c, "index", n)>> ELSE <<>>)

\* The page is loaded (by the alternate URL after a timeout of the first);
\* a page that does not load is skipped, the no-results marker ends the loop.
OTO_LoadPage ==
    /\ site = "oto" /\ pc = "index" /\ page <= MaxPages
    /\ \E load \in {"ok", "alt_ok", "alt_fail", "error"}, marker \in BOOLEAN :
          /\ index_log' = index_log
                 \o <<<<page, "primary", LoadOutcome(load = "ok")>>>>
                 \o (IF load \in {"alt_ok", "alt_fail"}
                     THEN <<<<page, "alternate", LoadOutcome(load = "alt_ok")>>>>
                     ELSE <<>>)
          /\ since_fetch' = "fetch"
          /\ page_log' = page_log \o OtoLoadEvents(ContextOf(page - 1, pool_size),
                                                   page, load, marker)
          /\ IF load \in {"alt_fail", "error"}
             THEN /\ OtoNextPage(page)
                  /\ UNCHANGED <<new_links, iterated, scanned, no_results>>
             ELSE IF marker
             THEN /\ pc' = "detail" /\ idx' = 1 /\ page' = page
                  /\ no_results' = TRUE
                  /\ UNCHANGED <<new_links, iterated, scanned>>
             ELSE /\ pc' = "scan" /\ idx' = idx /\ page' = page
                  /\ new_links' = <<>> /\ iterated' = {} /\ scanned' = 0
                  /\ no_results' = no_results
    /\ ConfigUnchanged
    /\ UNCHANGED <<playwright, browser, contexts>>
    /\ UNCHANGED <<allowed, seen, found_links, no_new_iters, attempted, failed,
                   results, returned, out_json, out_csv, r_status, scrolls,
                   blocked>>

\* One anchor of the page: its href without the query joins hrefs, and the
\* loop over dict.fromkeys(hrefs) visits it unless it was visited before.
OTO_Anchor ==
    /\ site = "oto" /\ pc = "scan" /\ scanned < MaxAnchors
    /\ \E h \in Hrefs :
          LET href == SplitQuery(h)
              canonical == RStripSlash(SplitQuery(href))
              fresh == /\ href \notin iterated
                       /\ OtoIsDetail(href)
                       /\ canonical \notin seen
              all == Append(found_links, canonical)
          IN /\ scanned' = scanned + 1
             /\ iterated' = iterated \cup {href}
             /\ IF fresh
                THEN /\ seen' = SeenAdd(seen, canonical)
                     /\ found_links' = all
                     /\ new_links' = Append(new_links, canonical)
                     /\ pc' = IF Truthy(max_listings) /\ Len(all) >= max_listings
                              THEN "scan_end" ELSE "scan"
                ELSE UNCHANGED <<seen, found_links, new_links, pc>>
    /\ ConfigUnchanged
    /\ UNCHANGED poolVars
    /\ UNCHANGED <<allowed, page, index_log, no_new_iters, idx, attempted,
                   failed, results, returned, out_json, out_csv, r_status,
                   since_fetch, scrolls, no_results, blocked>>

\* After the anchors: page.close(), polite_sleep, the max_listings test.
OTO_EndPage ==
    /\ site = "oto" /\ pc \in {"scan", "scan_end"}
    /\ IF Truthy(max_listings) /\ Len(found_links) >= max_listings
       THEN /\ found_links' = Slice(found_links, max_listings)
            /\ pc' = "detail" /\ idx' = 1 /\ page' = page
       ELSE /\ found_links' = found_links
            /\ OtoNextPage(page)
    /\ page_log' = Append(page_log,
                          Closed(ContextOf(page - 1, pool_size), "index", page))
    /\ ConfigUnchanged
    /\ UNCHANGED <<playwright, browser, contexts>>
    /\ ScanOver
    /\ since_fetch' = "sleep"
    /\ UNCHANGED <<allowed, index_log, seen, no_new_iters, attempted, failed,
                   results, returned, out_json, out_csv, r_status, scrolls,
                   no_results, blocked>>

OTO_Detail == site = "oto" /\ BrowserDetail

\* crawl_detail_links writes the files; the contexts and the browser are
\* closed and the results returned.
OTO_Save ==
    /\ site = "oto" /\ pc = "detail" /\ idx > Len(DetailLinks)
    /\ out_json' = Written(results)
    /\ out_csv' = CsvOf(results)
    /\ returned' = [kind |-> "list", value |-> results]
    /\ pc' = "done"
    /\ contexts' = CloseAll(contexts) /\ browser' = "closed"
    /\ playwright' = WithExit(playwright)
    /\ ConfigUnchanged
    /\ UNCHANGED page_log
    /\ UNCHANGED <<allowed, page, index_log, seen, found_links, new_links,
                   iterated, scanned, no_new_iters, idx, attempted, failed,
                   results, r_status, since_fetch, scrolls, no_results, blocked>>

(***************************************************************************)
(* chotot: crawl_chotot_category                                           *)
(***************************************************************************)

\* `if no_new_iters >= 3`
NoNewLimit == 3

\* a in b, for strings.
IsInfix(a, b) ==
    \E i \in 0..(Len(b) - Len(a)) : SubSeq(b, i + 1, i + Len(a)) = a

\* DETAIL_REL_RE.match(href) or DETAIL_FULL_RE.match(full): the path of a
\* listing, followed by nothing or by the query.
ChototIsDetail(href, full) ==
    \/ /\ href # <<>> /\ Head(href) \in ListingPaths
       /\ (Len(href) = 1 \/ href[2] = Query)
    \/ /\ Len(full) = 1 /\ Head(full) \in ListingPaths

CT_CheckRobots == site = "chotot" /\ BrowserCheckRobots("load")

\* The category page is loaded once; when that fails the contexts and the
\* browser are closed and [] is returned. The first iteration then reads
\* the text of the page, which may show the no-results marker.
CT_LoadCategory ==
    /\ site = "chotot" /\ pc = "load"
    /\ since_fetch' = "fetch"
    /\ \E ok \in BOOLEAN, marker \in BOOLEAN :
          /\ index_log' = Append(index_log, <<1, "category", LoadOutcome(ok)>>)
          /\ IF ok THEN /\ pc' = "scan" /\ returned' = returned
                     /\ new_links' = <<>> /\ scanned' = 0
                     /\ no_results' = marker
                     /\ page_log' = Append(page_log, Opened(0, "index", 1))
                     /\ UNCHANGED <<playwright, browser, contexts>>
                ELSE /\ pc' = "load_failed"
                     /\ returned' = [kind |-> "list", value |-> <<>>]
                     /\ ~marker
                     /\ page_log' = page_log \o <<Opened(0, "index", 1),
                                                   Closed(0, "index", 1)>>
                     /\ contexts' = CloseAll(contexts) /\ browser' = "closed"
                     /\ playwright' = WithExit(playwright)
                     /\ UNCHANGED <<new_links, scanned, no_results>>
    /\ ConfigUnchanged
    /\ UNCHANGED <<allowed, page, seen, found_links, iterated, no_new_iters,
                   idx, attempted, failed, results, out_json, out_csv,
                   r_status, scrolls, blocked>>

\* Mutant of IsStopLink: the scan of the anchors never tests the stop link.
IsStopLink_Never(stop, canonical) == FALSE

\* `stop_link and (canonical == stop_link or canonical.split("?")[0] == stop_link)`
IsStopLink(stop, canonical) ==
    /\ stop # <<>>
    /\ (canonical = stop \/ SplitQuery(canonical) = stop)

\* One anchor of the current iteration.
CT_Anchor ==
    /\ site = "chotot" /\ pc = "scan" /\ scanned < MaxAnchors
    /\ \E href \in Hrefs :
          LET full == SplitQuery(href)
              canonical == RStripSlash(full)
              fresh == ChototIsDetail(href, full) /\ canonical \notin seen
              stop == IsStopLink(stop_link, canonical)
          IN /\ scanned' = scanned + 1
             /\ IF fresh
                THEN /\ seen' = SeenAdd(seen, canonical)
                     /\ found_links' = Append(found_links, canonical)
                     /\ new_links' = Append(new_links, canonical)
                     /\ pc' = IF stop THEN "scan_end" ELSE "scan"
                ELSE UNCHANGED <<seen, found_links, new_links, pc>>
    /\ ConfigUnchanged
    /\ UNCHANGED poolVars
    /\ UNCHANGED <<allowed, page, index_log, iterated, no_new_iters, idx,
                   attempted, failed, results, returned, out_json, out_csv,
                   r_status, since_fetch, scrolls, no_results, blocked>>

\* Mutant of NoNewCount: an iteration with new links does not reset it.
NoNewCount_NoReset(new, count) == IF new # <<>> THEN count ELSE count + 1

\* `if new_links: no_new_iters = 0 else: no_new_iters += 1`
NoNewCount(new, count) == IF new # <<>> THEN 0 ELSE count + 1

\* `any((stop_link in nl) or (nl in stop_link) for nl in new_links)`
StopLinkAmong(stop, new) ==
    \E i \in 1..Len(new) : IsInfix(stop, new[i]) \/ IsInfix(new[i], stop)

\* After the anchors of an iteration: the counter of iterations without new
\* links, the stop_link and max_listings tests, the scroll with its sleep
\* and the no_new_iters test; the next iteration reads the text of the
\* page; after the loop, page.close() and the final slice.
CT_EndIter ==
    /\ site = "chotot" /\ pc \in {"scan", "scan_end"}
    /\ \E marker \in BOOLEAN :
       LET count == NoNewCount(new_links, no_new_iters)
           stop == stop_link # <<>> /\ StopLinkAmong(stop_link, new_links)
           full == Truthy(max_listings) /\ Len(found_links) >= max_listings
           scrolled == ~stop /\ ~full
           over == stop \/ full \/ count >= NoNewLimit \/ page + 1 > MaxIters
       IN /\ no_new_iters' = count
          /\ scrolls' = IF scrolled THEN scrolls + 1 ELSE scrolls
          /\ since_fetch' = IF scrolled THEN "sleep" ELSE since_fetch
          /\ IF over
             THEN /\ pc' = "detail" /\ idx' = 1 /\ page' = page
                  /\ found_links' = IF Truthy(max_listings)
                                    THEN Slice(found_links, max_listings)
                                    ELSE found_links
                  /\ ~marker /\ no_results' = no_results
                  /\ page_log' = Append(page_log, Closed(0, "index", 1))
             ELSE /\ pc' = "scan" /\ idx' = idx /\ page' = page + 1
                  /\ found_links' = found_links
                  /\ no_results' = (no_results \/ marker)
                  /\ page_log' = page_log
    /\ ScanOver
    /\ ConfigUnchanged
    /\ UNCHANGED <<playwright, browser, contexts>>
    /\ UNCHANGED <<allowed, index_log, seen, attempted, failed, results,
                   returned, out_json, out_csv, r_status, blocked>>

CT_Detail == site = "chotot" /\ BrowserDetail

\* The contexts and the browser are closed, the JSON file is written and
\* the results returned.
CT_Save ==
    /\ site = "chotot" /\ pc = "detail" /\ idx > Len(DetailLinks)
    /\ out_json' = Written(results)
    /\ returned' = [kind |-> "list", value |-> results]
    /\ pc' = "done"
    /\ contexts' = CloseAll(contexts) /\ browser' = "closed"
    /\ playwright' = WithExit(playwright)
    /\ ConfigUnchanged
    /\ UNCHANGED page_log
    /\ UNCHANGED <<allowed, page, index_log, seen, found_links, new_links,
                   iterated, scanned, no_new_iters, idx, attempted, failed,
                   results, out_csv, r_status, since_fetch, scrolls, no_results,
                   blocked>>

\* A call on the page outside every try block raises while the anchors are
\* collected or the page is scrolled (query_selector_all, evaluate): the
\* exception leaves the with block and the function.
BrowserFailure ==
    /\ site \in {"oto", "chotot"} /\ pc \in {"scan", "scan_end"}
    /\ pc' = "propagated"
    /\ playwright' = WithExit(playwright)
    /\ ConfigUnchanged
    /\ UNCHANGED <<browser, contexts, page_log>>
    /\ UNCHANGED <<allowed, page, index_log, seen, found_links, new_links,
                   iterated, scanned, no_new_iters, idx, attempted, failed,
                   results, returned, out_json, out_csv, r_status, since_fetch,
                   scrolls, no_results, blocked>>

CrawlNext ==
    \/ BB_CheckRobots
    \/ BB_IndexPage
    \/ BB_Detail
    \/ BB_Save
    \/ OTO_CheckRobots
    \/ OTO_LoadPage
    \/ OTO_Anchor
    \/ OTO_EndPage
    \/ OTO_Detail
    \/ OTO_Save
    \/ CT_CheckRobots
    \/ CT_LoadCategory
    \/ CT_Anchor
    \/ CT_EndIter
    \/ CT_Detail
    \/ CT_Save
    \/ Interrupt
    \/ BrowserFailure

Spec == CrawlInit /\ [][CrawlNext]_vars

(***************************************************************************)
(* oto script.py: clean_specs_file and the two calls of __main__           *)
(*                                                                         *)
(* A file is what json.load makes of it: missing, not JSON, JSON that is   *)
(* not a list, or a list of items. The text of a value is the sequence of  *)
(* its fields between colons, stripped, as for the lines of a spec block:  *)
(* <<"Hop so", "Tu dong">> is "Hộp số: Tự động".                           *)
(***************************************************************************)

\* `for key in ["Nhiên liệu", "Hộp số"]`
FuelKey == "Nhien lieu"

\* Longest list of items drawn.
MaxItems == 2

\* clean_specs_file(sys.argv[1]) stands twice in __main__.
MainCalls == 2

\* A value of an item: the key is absent, the value is not a string, or it
\* is the string with the given text.
Absent == [kind |-> "absent", text |-> <<>>]
NotStr == [kind |-> "int", text |-> <<>>]
Str(t) == [kind |-> "str", text |-> t]

PlainValue(key) == IF key = FuelKey THEN "Xang" ELSE "Tu dong"
OtherKey(key) == IF key = FuelKey THEN GearKey ELSE FuelKey

\* The values drawn for a key: plain, with the label of the key in front
\* once or twice, and with the label of the other key in front.
ValuesOf(key) ==
    {Absent, NotStr,
     Str(<<PlainValue(key)>>),
     Str(<<key, PlainValue(key)>>),
     Str(<<key, key, PlainValue(key)>>),
     Str(<<OtherKey(key), PlainValue(key)>>)}

NotADict == [dict |-> FALSE, fuel |-> Absent, gear |-> Absent]
Items == {NotADict} \cup [dict : {TRUE}, fuel : ValuesOf(FuelKey), gear : ValuesOf(GearKey)]

Files ==
    {NoFile,
     [kind |-> "invalid", format |-> "compact", items |-> <<>>],
     [kind |-> "notlist", format |-> "compact", items |-> <<>>]}
    \cup [kind : {"list"}, format : {"compact", "indent2"},
          items : SeqsUpTo(Items, MaxItems)]

\* `key in item and isinstance(item[key], str)` and val.startswith(f"{key}:")
StartsWithKey(key, v) == v.kind = "str" /\ Len(v.text) >= 2 /\ v.text[1] = key

\* item[key] = val.split(":", 1)[1].strip()
CleanValue(key, v) == IF StartsWithKey(key, v) THEN Str(Tail(v.text)) ELSE v

\* The body of `for item in listings`.
CleanItem(item) ==
    IF ~item.dict THEN item
    ELSE [item EXCEPT !.fuel = CleanValue(FuelKey, @),
                      !.gear = CleanValue(GearKey, @)]

\* clean_specs_file: a file that is missing, unreadable or not a list is
\* left alone; a list is cleaned and written back with indent=2.
clean_specs_file(file) ==
    IF file.kind # "list" THEN file
    ELSE [kind |-> "list", format |-> "indent2",
          items |-> [i \in 1..Len(file.items) |-> CleanItem(file.items[i])]]

CleanInit ==
    /\ FetchIdle
    /\ ParseIdle
    /\ CrawlIdle
    /\ HarvestIdle
    /\ c_file \in Files
    /\ c_hist = <<>>

\* One of the calls of __main__.
Clean ==
    /\ Len(c_hist) < MainCalls
    /\ c_file' = clean_specs_file(c_file)
    /\ c_hist' = Append(c_hist, c_file')
    /\ UNCHANGED <<fetchVars, parseVars, crawlVars, harvestVars>>

CleanNext == Clean

CleanSpec == CleanInit /\ [][CleanNext]_vars

(***************************************************************************)
(* Claims about fetch_with_retry (FetchSpec, FetchFairSpec)                *)
(***************************************************************************)

StrictlyIncreasing(s) == \A i \in 1..(Len(s) - 1) : s[i] < s[i + 1]

FetchTerminated == f_pc \in {"returned", "raised"}

\* C1: when the server answers 429 to the first k requests (k < max_retries)
\* and 200 to request k+1, the call has issued exactly k+1 requests, returns
\* the 200 response, and has slept k strictly increasing waits; for
\* [429, 429, 200] the waits are 2 then 4. While only 429s have been met and
\* attempts remain, the call has not ended: it waits and asks again.
C1_RetryOn429ThenSuccess ==
    LET n == Len(resps) IN
    (n >= 1 /\ \A i \in 1..(n - 1) : resps[i] = 429) =>
        /\ resps[n] = 200 =>
              /\ f_pc = "returned"
              /\ r = 200
              /\ requests = n
              /\ Len(waits) = n - 1
              /\ StrictlyIncreasing(waits)
              /\ (n = 3 => waits = <<2, 4>>)
        /\ (resps[n] = 429 /\ n < max_retries) =>
              /\ f_pc \in {"backoff", "attempting"}
              /\ r = NoResponse
              /\ requests = n
              /\ Len(waits) = n
              /\ StrictlyIncreasing(waits)

C1_Witness ==
    /\ resps = <<429, 429, 200>>
    /\ f_pc = "returned"
    /\ requests = 3
    /\ waits = <<2, 4>>

C2_Bounded ==
    /\ requests <= max_retries
    /\ f_pc = "raised" =>
          /\ requests = max_retries
          /\ r = NoResponse
          /\ \A i \in 1..Len(resps) : resps[i] \in Retryables
    /\ (requests = max_retries /\ resps[max_retries] \in Retryables) =>
          /\ f_pc \in {"backoff", "raised"}
          /\ r = NoResponse

\* C2: whatever mix of transport errors, 429, 403/451 and 5xx the call meets,
\* it never issues more than max_retries requests, it terminates, and when
\* all max_retries attempts ended in a retryable failure it raises instead
\* of returning a response.
C2_TerminatesWithinMaxRetries ==
    /\ []C2_Bounded
    /\ <>FetchTerminated
    /\ (requests = max_retries /\ ~FetchTerminated) ~> (f_pc = "raised")

C2_Witness ==
    /\ f_pc = "raised"
    /\ requests = max_retries
    /\ resps = <<RequestException, 429, 403, 451, 500, 599>>

\* The statuses the claim calls not retryable.
C3_NotRetryable(resp) ==
    /\ resp # RequestException
    /\ resp \notin {429, 403, 451}
    /\ ~(500 <= resp /\ resp <= 599)

\* C3: a response whose status is not retryable (200, 404, anything but 429,
\* 403, 451 and 5xx) is the last one of the call: it is returned as-is by the
\* attempt that received it, no wait follows it (the waits are those of the
\* failed attempts before it) and no request follows it.
C3_PassthroughReturnsAtOnce ==
    \A i \in 1..Len(resps) :
        C3_NotRetryable(resps[i]) =>
            /\ i = Len(resps)
            /\ f_pc = "returned"
            /\ r = resps[i]
            /\ requests = i
            /\ Len(waits) = i - 1

C3_Witness ==
    /\ f_pc = "returned"
    /\ r = 404
    /\ resps = <<500, 429, 404>>
    /\ Len(waits) = 2

(***************************************************************************)
(* Claims about the crawl of a category (Spec)                             *)
(***************************************************************************)

\* The canonical form of a URL: no query string, no trailing slash.
Canon(u) == RStripSlash(SplitQuery(u))

\* The crawl function is past its robots check and was not refused.
Proceeded == pc \notin {"start", "refused"}

\* C4: when the robots check is on and the robots policy disallows the path
\* of the category, no index page and no detail page is fetched, and no
\* record is returned (the result is empty).
C4_DisallowedCategoryNotCrawled ==
    (check_robots_flag /\ ~oracle.raises
        /\ ~can_fetch(oracle.disallow, CategoryPath))
    => /\ ~Proceeded
       /\ index_log = <<>>
       /\ attempted = <<>>
       /\ returned.value = <<>>

\* The policy disallows the path of the category only, and pages of that
\* category were fetched all the same.
C4_DisallowedCategoryCrawled ==
    /\ check_robots_flag /\ ~oracle.raises
    /\ oracle.disallow = {CategoryPath}
    /\ index_log # <<>>
    /\ attempted # <<>>
    /\ pc = "done"

\* C5: when reading or parsing robots.txt raises, the check answers
\* "allowed": the crawl is never refused, and it goes on to the index pages
\* as after an explicit allow (none of its later steps reads the oracle).
C5_RobotsFailureFailsOpen ==
    (oracle.raises /\ pc # "start")
    => /\ allowed
       /\ pc # "refused"
       /\ (pc \in {"scan", "scan_end", "detail", "done"} => index_log # <<>>)

\* robots.txt could not be read, and the crawl ran to its end with records.
C5_Witness ==
    /\ oracle.raises
    /\ pc = "done"
    /\ index_log # <<>>
    /\ results # <<>>

\* C6: the link list never holds the same canonical URL twice, whatever the
\* number of index pages or anchors that led to it.
C6_NoCanonicalUrlTwice ==
    \A i, j \in 1..Len(found_links) :
        i # j => Canon(found_links[i]) # Canon(found_links[j])

\* The list holds a listing twice, and its page was requested twice.
C6_SameListingTwice ==
    /\ pc = "done"
    /\ \E i, j \in 1..Len(attempted) :
          i < j /\ Canon(attempted[i]) = Canon(attempted[j])

\* C7: during link discovery the seen set only grows (no canonical URL ever
\* leaves it), and every link of the link list is in the seen set.
C7_SeenGrowsAndCoversLinks ==
    /\ [][seen \subseteq seen']_vars
    /\ [](site \in {"oto", "chotot"} => Range(found_links) \subseteq seen)

\* Discovery went over more than one page or iteration, the seen set grew
\* to several links and the list was cut to max_listings after that.
C7_Witness ==
    /\ site \in {"oto", "chotot"}
    /\ page >= 2
    /\ Cardinality(seen) >= 2
    /\ Range(found_links) # seen
    /\ found_links # <<>>
    /\ pc = "detail"

\* One iteration of the detail loop, however it ends for its link: the link
\* is attempted, the loop moves to the next link, and the records produced
\* so far stay as they are, with at most one record of this link appended.
C8_DetailStep ==
    (pc = "detail" /\ attempted' # attempted)
    => /\ attempted' = Append(attempted, DetailLinks[idx])
       /\ pc' = "detail" /\ idx' = idx + 1
       /\ found_links' = found_links
       /\ \/ results' = results
          \/ /\ Len(results') = Len(results) + 1
             /\ SubSeq(results', 1, Len(results)) = results
             /\ results'[Len(results')].url = DetailLinks[idx]
             /\ DetailLinks[idx] \notin failed'

\* After the loop every link was attempted exactly once, in order, and no
\* record comes from a link whose iteration failed.
C8_AtEnd ==
    pc = "done"
    => /\ attempted = DetailLinks
       /\ \A i \in 1..Len(results) :
             results[i].url \in Range(attempted) \ failed

\* C8: the failure of one link (fetch error, timeout, parse error) never
\* aborts the detail loop: every link is attempted exactly once and the
\* records of the other links are what they are without the failing link.
C8_FailureIsolated ==
    /\ [](pc # "aborted")
    /\ []C8_AtEnd
    /\ [][C8_DetailStep]_vars

\* The second of three links failed; the first and the third gave records.
C8_Witness ==
    /\ site \in {"bonbanh", "chotot"}
    /\ pc = "done"
    /\ Len(attempted) >= 3
    /\ attempted[2] \in failed
    /\ \E i, j \in 1..Len(results) :
          /\ i < j
          /\ results[i].url = attempted[1]
          /\ results[j].url = attempted[3]

(***************************************************************************)
(* Claims about parse_listing_page (ParseSpec)                             *)
(***************************************************************************)

\* C9: parse_listing_page never raises, for any markup and any source URL
\* (also one with no trailing numeric id): a record is always returned.
C9_ParseNeverRaises == parsed.tag # "raised"

\* The markup is empty and the URL has no trailing id: the parser was run.
C9_Case ==
    /\ parsed.tag # "NotParsed"
    /\ html.ma_tin = None /\ html.heading = <<>> /\ html.spec = <<>>
    /\ TrailingId(url) = None

(***************************************************************************)
(* Claims about the interruption of a crawl (Spec)                         *)
(***************************************************************************)

\* C10: when the detail loop is interrupted after some links, the records
\* completed so far are still returned or written to the output file.
C10_InterruptKeepsRecords ==
    (pc = "interrupted" /\ results # <<>>)
    => \/ out_json.written /\ out_json.data = results
       \/ returned.kind = "list" /\ returned.value = results

\* The crawl was interrupted with records in memory: nothing was written
\* and nothing returned.
C10_RecordsLost ==
    /\ pc = "interrupted"
    /\ results # <<>>
    /\ ~out_json.written /\ ~out_csv.written
    /\ returned = NotReturned

(***************************************************************************)
(* Claims about robots, pagination and limits of a crawl (Spec)            *)
(***************************************************************************)

\* C11: with the robots check on, the robots policy is consulted for the
\* path of every fetch: every index page fetched has a category path the
\* policy allows, and every detail page fetched has a path it allows.
C11_RobotsConsultedForEveryFetch ==
    (check_robots_flag /\ ~oracle.raises)
    => /\ index_log # <<>> => can_fetch(oracle.disallow, CategoryPath)
       /\ \A i \in 1..Len(attempted) :
             can_fetch(oracle.disallow, Head(attempted[i]))

\* bonbanh asked the policy about the category path and was allowed; the
\* policy disallows the path of a listing and that listing was fetched.
C11_DisallowedListingFetched ==
    /\ site = "bonbanh"
    /\ check_robots_flag /\ ~oracle.raises
    /\ oracle.disallow = {"/listing-1"}
    /\ allowed
    /\ <<"/listing-1">> \in Range(attempted)

\* C12: in indexed pagination the page loop stops at the first index page
\* that yields zero new links: after a page that was read and added no link
\* the loop is not back at the request of a further index page.
C12_StopsAtFirstPageWithoutNewLinks ==
    [][(\/ /\ site = "bonbanh" /\ pc = "index"
           /\ index_log' # index_log /\ found_links' = found_links
        \/ /\ site = "oto" /\ pc \in {"scan", "scan_end"}
           /\ new_links = <<>> /\ pc' \notin {"scan", "scan_end"})
       => pc' # "index"]_vars

\* C13: for a positive max_listings, once the accumulated link count has
\* reached max_listings no further index page or scroll step is requested,
\* the link list handed to the detail loop holds at most max_listings links
\* and at most max_listings detail pages are fetched.
C13_MaxListingsBoundsCrawl ==
    /\ [][(max_listings > 0 /\ Len(found_links) >= max_listings)
          => (index_log' = index_log /\ scrolls' = scrolls)]_vars
    /\ []((max_listings > 0 /\ pc \in {"detail", "done"})
          => /\ Len(DetailLinks) <= max_listings
             /\ Len(attempted) <= max_listings)

\* chotot harvested more links than max_listings in one iteration and has
\* fetched exactly max_listings detail pages at the end.
C13_Witness ==
    /\ site = "chotot" /\ pc = "done"
    /\ max_listings > 0
    /\ Cardinality(seen) > max_listings
    /\ Len(attempted) = max_listings
    /\ scrolls = 0

\* C14: in infinite-scroll mode the counter of consecutive iterations
\* without new links is reset to 0 by an iteration that finds a new link
\* and grows by one otherwise; no harvest iteration runs once it has
\* reached 3, and never more than the configured number of iterations run.
C14_NoNewCounterStopsHarvest ==
    /\ [][(site = "chotot" /\ pc \in {"scan", "scan_end"}
              /\ (pc' = "detail" \/ page' = page + 1))
          => /\ no_new_iters' = IF new_links # <<>> THEN 0
                                 ELSE no_new_iters + 1
             /\ no_new_iters' >= NoNewLimit => pc' = "detail"]_vars
    /\ [](site = "chotot"
          => /\ no_new_iters <= NoNewLimit
             /\ page <= MaxIters
             /\ (pc \in {"scan", "scan_end"} => no_new_iters < NoNewLimit))

\* The first iteration found nothing, the second found a link and reset
\* the counter, the next three found nothing: the harvest stopped after the
\* fifth iteration and the detail loop was reached.
C14_Witness ==
    /\ site = "chotot" /\ pc = "detail"
    /\ no_new_iters = NoNewLimit
    /\ found_links # <<>>
    /\ scrolls = NoNewLimit + 2
    /\ stop_link = <<"/listing-2">> /\ seen = {<<"/listing-1">>}

\* C15: in infinite-scroll mode with a stop_link, link collection is not
\* stopped by a newly harvested link that is not exactly stop_link: when the
\* harvest loop ends in an iteration whose new links do not hold stop_link,
\* it ends for another reason (max_listings reached, three iterations
\* without new links, or the last configured iteration).
C15_OnlyExactStopLinkStops ==
    [][(/\ site = "chotot" /\ pc \in {"scan", "scan_end"} /\ pc' = "detail"
        /\ stop_link # <<>>
        /\ stop_link \notin Range(new_links))
       => \/ max_listings > 0 /\ Len(found_links) >= max_listings
          \/ no_new_iters' >= NoNewLimit
          \/ page >= MaxIters]_vars

\* The harvest ended before the last iteration, with new links in its last
\* iteration and no max_listings, and stop_link was never harvested.
C15_StoppedByOtherLink ==
    /\ site = "chotot" /\ pc = "detail"
    /\ stop_link # <<>> /\ stop_link \notin seen
    /\ max_listings = NoLimit
    /\ no_new_iters = 0
    /\ page < MaxIters

\* C16: in both traversal modes, once the text of an index page that was
\* read shows the no-results marker, no further page and no further scroll
\* step is requested.
C16_NoResultsMarkerStopsTraversal ==
    [][no_results => (index_log' = index_log /\ scrolls' = scrolls)]_vars

\* chotot read a page text with the marker at the start of an iteration,
\* and every iteration of the harvest, that one included, scrolled.
C16_ScrolledPastMarker ==
    /\ site = "chotot" /\ pc = "detail"
    /\ no_results
    /\ scrolls = page

(***************************************************************************)
(* Claims about delays, CAPTCHA pages and 404 responses (Spec)             *)
(***************************************************************************)

\* C17: between any two successive page requests of a crawl there is a
\* politeness delay: a step that requests an index page or a detail page is
\* never taken when the last thing the crawl did was a page request.
C17_DelayBetweenRequests ==
    [][(index_log' # index_log \/ attempted' # attempted)
       => since_fetch # "fetch"]_vars

\* bonbanh fetched two detail pages and the year filter discarded both: the
\* second was requested right after the first, without a sleep.
C17_BackToBackFetches ==
    /\ site = "bonbanh"
    /\ Len(attempted) >= 2
    /\ results = <<>> /\ failed = {}

\* C18: a rendered detail page whose text holds a CAPTCHA marker never
\* produces a record: no record of the results has the URL of a link whose
\* page showed the marker.
C18_CaptchaPageYieldsNoRecord ==
    \A i \in 1..Len(results) : results[i].url \notin blocked

\* A crawl in the browser met a CAPTCHA page on one link and extracted a
\* record from another.
C18_Witness ==
    /\ site \in {"oto", "chotot"} /\ pc = "done"
    /\ blocked # {}
    /\ results # <<>>
    /\ blocked \subseteq Range(attempted)

\* The number of times link l was requested by the detail loop.
Attempts(l) == Cardinality({i \in 1..Len(attempted) : attempted[i] = l})

\* C19: a detail page with a CAPTCHA marker is a retryable failure with an
\* extended cool-down: right after such a page the crawler waits three
\* times the normal delay, and at the end of the crawl the link has been
\* fetched again.
C19_CaptchaLinkRetriedAfterCooldown ==
    /\ (pc = "detail" /\ attempted # <<>> /\ Last(attempted) \in blocked)
       => since_fetch = "sleep3"
    /\ pc = "done" => \A l \in blocked : Attempts(l) >= 2

\* chotot met a CAPTCHA page, waited, and finished the crawl with every
\* link requested once only.
C19_BlockedLinkDropped ==
    /\ site = "chotot" /\ pc = "done"
    /\ blocked # {}
    /\ \A l \in blocked : Attempts(l) = 1

\* C20: a detail URL whose fetch ends with HTTP 404 never contributes a
\* record, whatever the body of the response holds: a detail step of
\* bonbanh whose response has status 404 leaves the results as they were.
C20_NotFoundYieldsNoRecord ==
    [][(site = "bonbanh" /\ attempted' # attempted /\ r_status' = 404)
       => results' = results]_vars

\* The last detail fetch of bonbanh's category crawl was answered 404 and
\* the record parsed from its body is the last of the results.
C20_RecordFrom404 ==
    /\ site = "bonbanh"
    /\ r_status = 404
    /\ attempted # <<>> /\ results # <<>>
    /\ Last(results).url = Last(attempted)
    /\ Last(attempted) \notin failed

(***************************************************************************)
(* Claims about the templates of an index page (Spec)                      *)
(***************************************************************************)

\* The positions of index_log that hold a request for page n.
RequestsOf(n) == {i \in 1..Len(index_log) : index_log[i][1] = n}

\* C21: in indexed pagination a failed fetch of the primary-template URL of
\* a page, whatever the reason, is followed by one request of the
\* alternate-template URL of that page, and at most two template URLs are
\* requested for one page number.
C21_AlternateTriedOnceAfterFailure ==
    site \in {"bonbanh", "oto"}
    => /\ \A i \in 1..Len(index_log) :
             (index_log[i][2] = "primary" /\ index_log[i][3] = "failed")
             => /\ i < Len(index_log)
                /\ index_log[i + 1][1] = index_log[i][1]
                /\ index_log[i + 1][2] = "alternate"
       /\ \A n \in 1..MaxPages :
             /\ Cardinality(RequestsOf(n)) <= 2
             /\ Cardinality({i \in RequestsOf(n) :
                                index_log[i][2] = "alternate"}) <= 1

\* The primary URL of page 1 of oto failed with an error other than a
\* timeout, and page 2 was requested next: the alternate URL was not tried.
C21_PageGivenUpWithoutAlternate ==
    /\ site = "oto"
    /\ Len(index_log) >= 2
    /\ index_log[1] = <<1, "primary", "failed">>
    /\ index_log[2][1] = 2

(***************************************************************************)
(* Claims about the fields of a record (ParseSpec)                         *)
(***************************************************************************)

\* C22: the id of a record is the digit string after the label "Mã tin"
\* whenever the page text holds the label, whatever the URL; without the
\* label it is the id in the URL, and null when the URL holds none.
C22_IdFromLabelElseUrl ==
    parsed.tag # "NotParsed"
    => /\ parsed.tag = "record"
       /\ parsed.id = IF html.ma_tin # None THEN html.ma_tin
                      ELSE IF p_site = "bonbanh" THEN TrailingId(url)
                      ELSE PathId(url)

\* The text of a chotot page holds "Mã tin: 123456" and the record has
\* another id.
C22_LabelIgnored ==
    /\ p_site = "chotot"
    /\ html.ma_tin = "123456"
    /\ parsed.tag = "record"
    /\ parsed.id # "123456"

\* Line i of the section is the last one that sets its key.
LastOfKey(lines, i) ==
    \A j \in (i + 1)..Len(lines) : ~HasColon(lines[j]) \/ lines[j][1] # lines[i][1]

\* The block "Năm sản xuất:" / "2025" / "Hộp số: Tự động" under its header.
C23_ExampleBlock ==
    <<SectionHeader, <<YearKey, "">>, <<"2025">>, <<GearKey, "Tu dong">>>>

\* C23: spec-section parsing maps a line "K:" followed by a value line V to
\* K -> V, maps a line "K: V" to K -> V, and turns the block
\* "Năm sản xuất:" / year / "Hộp số: Tự động" into exactly these two pairs.
C23_SpecLinesBecomePairs ==
    (p_site = "bonbanh" /\ parsed.tag = "record" /\ html.spec # <<>>)
    => /\ \A i \in 1..Len(html.spec) :
             (/\ EndsWithColon(html.spec[i]) /\ i < Len(html.spec)
              /\ ~HasColon(html.spec[i + 1]) /\ LastOfKey(html.spec, i))
             => /\ html.spec[i][1] \in DOMAIN parsed.specs
                /\ parsed.specs[html.spec[i][1]] = html.spec[i + 1]
       /\ \A i \in 1..Len(html.spec) :
             (/\ HasColon(html.spec[i]) /\ ~EndsWithColon(html.spec[i])
              /\ LastOfKey(html.spec, i))
             => /\ html.spec[i][1] \in DOMAIN parsed.specs
                /\ parsed.specs[html.spec[i][1]] = <<html.spec[i][2]>>
       /\ parse_key_values_from_section(C23_ExampleBlock)
             = [k \in {YearKey, GearKey} |->
                   IF k = YearKey THEN <<"2025">> ELSE <<"Tu dong">>]

\* A line "Năm sản xuất:" with no value is followed by the line
\* "Hộp số: 6 cấp": the record has no pair for "Hộp số".
C23_PairSwallowedAsValue ==
    /\ p_site = "bonbanh" /\ parsed.tag = "record"
    /\ html.spec = <<SectionHeader, <<YearKey, "">>, <<GearKey, "6 cap">>>>
    /\ GearKey \notin DOMAIN parsed.specs
    /\ parsed.specs[YearKey] = <<GearKey, "6 cap">>

\* The URLs of the img elements of the page, in page order: the lazy
\* data-src when the element has one, else its src.
C24_Srcs == [i \in 1..Len(html.imgs) |->
                IF html.imgs[i].data_src # "" THEN html.imgs[i].data_src
                ELSE html.imgs[i].src]

\* The position of the first img element of the page with URL u.
C24_FirstAt(u) == CHOOSE i \in 1..Len(html.imgs) :
                     /\ C24_Srcs[i] = u
                     /\ \A j \in 1..(i - 1) : C24_Srcs[j] # u

\* The photo URLs the allow-pattern of a site matches.
C24_Allowed(s) ==
    IF s = "bonbanh" THEN {BonbanhPhoto, BonbanhLazyPhoto} ELSE {OtoPhoto}

\* C24: the images of a record are exactly the image URLs (data-src if
\* present, else src) that match the allow-pattern of the site, each once,
\* in the order of their first occurrence; an allowed URL followed by an
\* icon URL gives exactly the allowed URL.
C24_ImagesAllowedOnceInOrder ==
    (p_site \in {"bonbanh", "oto"} /\ parsed.tag = "record")
    => /\ Range(parsed.images)
             = {u \in Range(C24_Srcs) : u \in C24_Allowed(p_site)}
       /\ \A i, j \in 1..Len(parsed.images) :
             i < j => /\ parsed.images[i] # parsed.images[j]
                      /\ C24_FirstAt(parsed.images[i])
                            < C24_FirstAt(parsed.images[j])
       /\ (/\ Len(html.imgs) = 2
           /\ C24_Srcs[1] \in C24_Allowed(p_site) /\ C24_Srcs[2] = IconUrl)
          => parsed.images = <<C24_Srcs[1]>>

\* The page of bonbanh holds an img whose data-src is one photo and whose
\* src is another, then an img of that other photo: the record has the
\* data-src first and the other photo second.
C24_Witness ==
    /\ p_site = "bonbanh" /\ parsed.tag = "record"
    /\ html.imgs = <<[data_src |-> BonbanhLazyPhoto, src |-> BonbanhPhoto],
                     [data_src |-> "", src |-> BonbanhPhoto]>>
    /\ parsed.images = <<BonbanhLazyPhoto, BonbanhPhoto>>

\* re.search(r"avatar|icon|logo|loading|spinner|watermark", src): the URLs
\* of the model that hold a token of the deny-pattern.
C25_Denied == {IconUrl, RelativeSrc}

\* C25: no image URL that matches the deny-pattern (avatar, icon, logo,
\* loading, spinner or watermark token) is in the images of a record, for
\* every site.
C25_NoDeniedImage ==
    parsed.tag = "record" => Range(parsed.images) \cap C25_Denied = {}

\* The record of a chotot page lists the URL of an icon.
C25_IconListed ==
    /\ p_site = "chotot" /\ parsed.tag = "record"
    /\ IconUrl \in Range(parsed.images)

(***************************************************************************)
(* Claims about link harvesting and the year filter (Spec)                 *)
(***************************************************************************)

\* C26: every link kept in the link list is canonical, with no query string
\* and no trailing slash, and two hrefs that differ only by query string or
\* trailing slash yield a single link.
C26_LinksCanonical ==
    /\ \A i \in 1..Len(found_links) : Canon(found_links[i]) = found_links[i]
    /\ \A i, j \in 1..Len(found_links) :
          Canon(found_links[i]) = Canon(found_links[j]) => i = j

\* The link list of bonbanh holds a listing with and without its trailing
\* slash.
C26_SlashVariantKept ==
    /\ site = "bonbanh" /\ pc = "detail"
    /\ <<"/listing-1">> \in Range(found_links)
    /\ <<"/listing-1", Slash>> \in Range(found_links)

C28_Recent(rec) ==
    /\ YearKey \in DOMAIN rec.specs
    /\ rec.specs[YearKey] \in IntLiterals
    /\ IntOf(rec.specs[YearKey]) >= YEAR_NOW - 3

\* The record lacks the year or has an older one.
C28_LacksOrOld(rec) ==
    \/ YearKey \notin DOMAIN rec.specs
    \/ /\ rec.specs[YearKey] \in IntLiterals
       /\ IntOf(rec.specs[YearKey]) < YEAR_NOW - 3

\* C28: every record in the results of bonbanh's category crawl has a
\* manufacture year of at least (current year - 3); a record that lacks the
\* year or has an older one is discarded without an error, and the loop
\* goes on with the following link.
C28_YearFilter ==
    /\ [](site = "bonbanh"
          => /\ \A i \in 1..Len(results) : C28_Recent(results[i])
             /\ \A link \in {<<"/listing-1">>, <<"/listing-2">>},
                   server \in Servers, h \in DetailPages :
                   LET data == parse_listing_page("bonbanh", h, link) IN
                   (/\ fetch_with_retry(server).tag = "response"
                    /\ data.tag = "record" /\ C28_LacksOrOld(data))
                   => BonbanhDetailBody(link, server, h).tag = "filtered")
    /\ [][(/\ site = "bonbanh" /\ attempted' # attempted
           /\ results' = results /\ failed' = failed)
          => (pc' = "detail" /\ idx' = idx + 1)]_vars

\* bonbanh requested two detail pages without an error: the first record
\* was discarded and the second, fetched after it, is the only result.
C28_Witness ==
    /\ site = "bonbanh" /\ pc = "done"
    /\ Len(attempted) = 2 /\ failed = {}
    /\ Len(results) = 1
    /\ results[1].url = attempted[2]

(***************************************************************************)
(* Claims about the waits of fetch_with_retry (FetchSpec)                  *)
(***************************************************************************)

\* The cap of the wait of the class of a failed attempt.
C29_Cap(resp) ==
    IF resp = RequestException THEN 60
    ELSE IF resp \in {403, 451} THEN 300
    ELSE 120

\* C29: the wait after failed attempt number a is min(base^a, 60) for a
\* transport error, min(base^a, 120) for HTTP 429 and HTTP 5xx and
\* min(2*base^a, 300) for HTTP 403/451; no wait exceeds the cap of its class.
C29_WaitPerClass ==
    /\ Len(waits) <= Len(resps)
    /\ \A a \in 1..Len(waits) :
          /\ waits[a] = IF resps[a] \in {403, 451}
                        THEN Min(2 * backoff_base ^ a, C29_Cap(resps[a]))
                        ELSE Min(backoff_base ^ a, C29_Cap(resps[a]))
          /\ waits[a] <= C29_Cap(resps[a])

\* Six failed attempts, the last a transport error whose wait is cut to its
\* cap of 60, after a 403 that waited twice the power.
C29_Witness ==
    /\ Len(waits) = max_retries
    /\ resps[max_retries] = RequestException /\ waits[max_retries] = 60
    /\ resps[2] = 403 /\ waits[2] = 2 * backoff_base ^ 2
    /\ resps[3] = 500 /\ resps[4] = 429

\* C30: the retry loop goes Attempting -> Backoff -> Attempting -> Terminal:
\* every backoff wait is followed by a new attempt, and the fetch never
\* waits a backoff and then terminates without attempting again.
C30_BackoffThenAttempt ==
    [][f_pc = "backoff" => f_pc' = "attempting"]_vars

\* The fetch raised after as many waits as requests: the last wait was
\* followed by no attempt.
C30_WaitedThenRaised ==
    /\ f_pc = "raised"
    /\ requests = max_retries
    /\ Len(waits) = requests

\* C31: before every attempt of fetch_with_retry the identity of the
\* session is drawn again: the header rotations are as many as the requests
\* issued, and a rotation changes only the User-Agent and Accept-Language
\* headers, never another header or the requested URL.
C31_RotationPerRequest ==
    /\ [](f_pc # "idle" => rotations = requests)
    /\ [][requests' # requests
          => /\ requests' = requests + 1 /\ rotations' = rotations + 1
             /\ headers'.user_agent \in USER_AGENTS
             /\ headers'.accept_language = AcceptLanguage
             /\ headers'.cookie = headers.cookie
             /\ f_url' = f_url]_vars

\* Three requests were issued, the last with another User-Agent than the
\* session started with, and the cookie of the session is still there.
C31_Witness ==
    /\ requests = 3 /\ rotations = 3
    /\ headers.user_agent # DEFAULT_USER_AGENT
    /\ headers.cookie = "sid=1"
    /\ f_url = <<"/listing-1">>

(***************************************************************************)
(* C32: the pool of contexts in the detail loop                            *)
(***************************************************************************)

\* How many pages of one (context, phase, number) are open after the calls
\* of log; close() on a page already closed changes nothing.
RECURSIVE PagesOpen(_, _)
PagesOpen(log, key) ==
    IF log = <<>> THEN 0
    ELSE LET e == log[Len(log)]
             before == PagesOpen(SubSeq(log, 1, Len(log) - 1), key)
         IN IF <<e.ctx, e.phase, e.n>> # key THEN before
            ELSE IF e.op = "open" THEN before + 1
            ELSE IF before > 0 THEN before - 1 ELSE 0

PageKeys(log) == {<<log[k].ctx, log[k].phase, log[k].n>> : k \in 1..Len(log)}

NoPageOpen(log) == \A key \in PageKeys(log) : PagesOpen(log, key) = 0

\* The new_page() calls of the detail loop, in order.
DetailOpens ==
    SelectSeq(page_log, LAMBDA e : e.op = "open" /\ e.phase = "detail")

\* C32: in the rendered-browser crawlers the i-th detail link (from 0) is
\* opened in context i mod pool_size, and a page is opened only when no
\* page of the pool is open: after a record, a CAPTCHA skip or an error the
\* page of a link is closed before the next one is opened.
C32_RoundRobinOnePage ==
    site \in {"oto", "chotot"} =>
        /\ Len(DetailOpens) = Len(attempted)
        /\ \A j \in 1..Len(DetailOpens) :
              /\ DetailOpens[j].n = j - 1
              /\ DetailOpens[j].ctx = (j - 1) % pool_size
              /\ DetailOpens[j].ctx \in 0..(Len(contexts) - 1)
        /\ \A k \in 1..Len(page_log) :
              page_log[k].op = "open" => NoPageOpen(SubSeq(page_log, 1, k - 1))
        /\ (pc \in {"detail", "done"} => NoPageOpen(page_log))

\* Two links in a pool of two contexts: one shows a CAPTCHA, one fails.
C32_Witness ==
    /\ site = "chotot" /\ pc = "done" /\ pool_size = 2
    /\ Len(attempted) = 2 /\ blocked # {} /\ failed # {}
    /\ DetailOpens[2].ctx = 1

(***************************************************************************)
(* C33: the browser and the pool at the end of the crawl function          *)
(***************************************************************************)

\* The crawl function has returned or an exception has left it.
CrawlFinished ==
    pc \in {"done", "load_failed", "refused", "propagated", "interrupted",
            "aborted"}

PoolClosed == \A i \in 1..Len(contexts) : ~contexts[i]

C34_KeyLineNotConsumed ==
    (p_site = "bonbanh" /\ parsed.tag = "record" /\ html.spec # <<>>)
    => \A i \in 1..(Len(html.spec) - 1) :
          (/\ EndsWithColon(html.spec[i])
           /\ HasColon(html.spec[i + 1]) /\ ~EndsWithColon(html.spec[i + 1]))
          => /\ parsed.specs[html.spec[i][1]] # html.spec[i + 1]
             /\ LastOfKey(html.spec, i + 1)
                   => /\ html.spec[i + 1][1] \in DOMAIN parsed.specs
                      /\ parsed.specs[html.spec[i + 1][1]] = <<html.spec[i + 1][2]>>
             /\ (LastOfKey(html.spec, i) /\ i + 1 = Len(html.spec))
                   => parsed.specs[html.spec[i][1]] = <<>>

\* "Năm sản xuất:" is followed by "Năm sản xuất: 2019": the whole second
\* line became the value of the first, and no pair gives the year 2019.
C34_KeyLineConsumed ==
    /\ p_site = "bonbanh" /\ parsed.tag = "record"
    /\ html.spec = <<SectionHeader, <<YearKey, "">>, <<YearKey, "2019">>>>
    /\ parsed.specs[YearKey] = <<YearKey, "2019">>
    /\ parsed.specs[YearKey] # <<"2019">>

\* The key of the overflow bucket, "Thông số khác".
OverflowKey == "Thong so khac"

\* Line i of the spec block left a trace in the specs of the record: it is
\* the value of a pair, its key is the key of a pair, or the overflow
\* bucket holds it.
C35_Kept(i) ==
    LET ln == html.spec[i] IN
    \/ \E k \in DOMAIN parsed.specs : parsed.specs[k] = ln
    \/ HasColon(ln) /\ ln[1] \in DOMAIN parsed.specs
    \/ /\ OverflowKey \in DOMAIN parsed.specs
       /\ \E j \in 1..Len(parsed.specs[OverflowKey]) :
             <<parsed.specs[OverflowKey][j]>> = ln

\* C35: no non-blank line of a spec block is dropped by spec parsing: every
\* line after the header contributes a key -> value pair or is appended to
\* the overflow bucket.
C35_NoSpecLineDropped ==
    (p_site = "bonbanh" /\ parsed.tag = "record")
    => \A i \in 2..Len(html.spec) : C35_Kept(i)

\* "Năm sản xuất: 2019" is followed by the line "Tự động": the record has
\* the year pair only, and no overflow bucket.
C35_LineDropped ==
    /\ p_site = "bonbanh" /\ parsed.tag = "record"
    /\ html.spec = <<SectionHeader, <<YearKey, "2019">>, <<"Tu dong">>>>
    /\ DOMAIN parsed.specs = {YearKey}
    /\ parsed.specs[YearKey] = <<"2019">>

(***************************************************************************)
(* C36, C37, C38: the link list and the detail phase (Spec)                *)
(***************************************************************************)

\* The positions of the link list that hold the link u.
C36_Positions(u) == {i \in 1..Len(found_links) : found_links[i] = u}

\* C36: the results list is an order-preserving subsequence of the
\* discovered link list: the url of every record is a discovered link, the
\* records stand in discovery order, and no link gives more than one record.
C36_ResultsSubsequenceOfLinks ==
    /\ \A j \in 1..Len(results) : C36_Positions(results[j].url) # {}
    /\ \A j, k \in 1..Len(results) :
          j < k => \A a \in C36_Positions(results[j].url),
                      b \in C36_Positions(results[k].url) : a < b

\* Two links were discovered, the first gave no record, the second did.
C36_Witness ==
    /\ pc = "done" /\ Len(found_links) = 2 /\ Len(attempted) = 2
    /\ Len(results) = 1
    /\ results[1].url = found_links[2]

\* The stop link stands in the link list: it was harvested.
C37_StopLinkHarvested ==
    /\ site = "chotot" /\ stop_link # <<>>
    /\ \E i \in 1..Len(found_links) : found_links[i] = stop_link

\* C37: in infinite-scroll mode, once the stop link is harvested during a
\* scan of the anchors, no later anchor of that scan and no later iteration
\* adds a link: the stop link is in the link list and is its last element
\* before the max_listings truncation.
C37_NothingAfterStopLink ==
    /\ []((C37_StopLinkHarvested /\ pc \in {"scan", "scan_end"})
            => (pc = "scan_end" /\ found_links[Len(found_links)] = stop_link))
    /\ [][C37_StopLinkHarvested
            => /\ Len(found_links') <= Len(found_links)
               /\ found_links' = SubSeq(found_links, 1, Len(found_links'))
               /\ pc' \notin {"scan", "index", "load"}]_vars

\* The stop link was harvested after another link and ended the scan with
\* an anchor of the page still unread.
C37_Witness ==
    /\ site = "chotot" /\ pc = "scan_end"
    /\ stop_link = <<"/listing-2">>
    /\ found_links = <<<<"/listing-1">>, <<"/listing-2">>>>
    /\ new_links = <<<<"/listing-2">>>>
    /\ scanned < MaxAnchors

\* min(a, b)
C38_Min(a, b) == IF a <= b THEN a ELSE b

\* C38: a max_listings that disables the limit during link discovery (None
\* or 0) leaves the detail phase unlimited too, every discovered link being
\* fetched as a detail page; for max_listings >= 1 the number of detail
\* pages fetched is min(number of discovered links, max_listings).
C38_DetailPhaseLimit ==
    (site \in {"oto", "chotot"} /\ pc = "done")
    => Len(attempted) = IF Truthy(max_listings)
                        THEN C38_Min(Cardinality(seen), max_listings)
                        ELSE Cardinality(seen)

\* oto with max_listings = 0: the discovery kept every link, and the crawl
\* ended without a single detail page requested.
C38_ZeroEmptiesDetailPhase ==
    /\ site = "oto" /\ pc = "done"
    /\ max_listings = 0
    /\ Len(found_links) = 2
    /\ attempted = <<>>

(***************************************************************************)
(* C39: clean_specs_file called twice (CleanSpec)                          *)
(***************************************************************************)

\* C39: clean_specs_file is idempotent: for every JSON list of records, the
\* second of the two calls made by the script leaves the file exactly as
\* the first call left it.
C39_SecondCallChangesNothing ==
    Len(c_hist) = 2 => c_hist[2] = c_hist[1]

\* "Hộp số: Hộp số: Tự động": the first call left "Hộp số: Tự động" in the
\* file, the second call changed it to "Tự động".
C39_SecondCallStrips ==
    /\ Len(c_hist) = 2
    /\ Len(c_hist[1].items) = 1
    /\ c_hist[1].items[1].gear = Str(<<GearKey, "Tu dong">>)
    /\ c_hist[2].items[1].gear = Str(<<"Tu dong">>)

====
